---- MODULE Spec2Model ----
(***************************************************************************)
(* Telegram <-> Roo-Code bridge: the registration store, the pending-      *)
(* question tracker, the notification router and the reply router of       *)
(* telegram_notification_system.py, wired to the single-slot websocket     *)
(* server of run_bot.py.                                                   *)
(*                                                                         *)
(* One asyncio event loop runs every coroutine, so the code between two    *)
(* awaits is one atomic action.  The awaits that can suspend are           *)
(*   - bot.send_message        (send_telegram_message)                     *)
(*   - websocket_send_func     (handle_telegram_response)                  *)
(*   - websocket.close         (the rejected connection's handler)         *)
(*   - the next frame          (async for message_str in websocket)        *)
(* update.message.reply_text is the last statement of every chat handler   *)
(* that calls it: nothing of the program's state is read or written after  *)
(* it, so it is folded into the step that calls it.                        *)
(***************************************************************************)
EXTENDS Integers, Sequences, FiniteSets, TLC

\* ------------------------------------------------------------------ bounds
\* Number of websocket connections the editor side may open (at once or
\* one after the other; a closed connection's slot is reused).
MaxConns == 2

TaskIds == {"abc123", "task0002"}
ChatIds == {555, 999}
ReplyTexts == {"Hello", "no"}
Conns == 1..MaxConns

\* Python's None for string-valued fields.
None == "None"

\* --------------------------------------------------------------- variables
VARIABLES
    task_to_chat_mapping,        \* dict task_id -> chat_id, in insertion order
    pending_telegram_responses,  \* dict chat_id -> {"taskId": task_id}
    registration_file,           \* registrations.json on disk
    disk_writable,               \* whether writing registrations.json succeeds
    websocket_send_func,         \* the send function given to __init__
    active_websocket,            \* run_bot.active_websocket: {} (None) or {k}
    ws,                          \* per connection: its handler coroutine
    tg,                          \* the chat update being handled, its outputs
    main                         \* run_bot.main: where it is, and the updater

vars == <<task_to_chat_mapping, pending_telegram_responses, registration_file,
          disk_writable, websocket_send_func, active_websocket, ws, tg, main>>

\* ------------------------------------------------------- dict operations
\* A dict that is iterated (task_to_chat_mapping) is a sequence of items in
\* insertion order with distinct keys; a dict that is only indexed
\* (pending_telegram_responses) is a function on the keys it holds.

DictKeys(m) == {m[i].task_id : i \in DOMAIN m}

\* Mutant of DictGet: m.get(task_id, 555), a chat for a task that has none.
DictGet_Default(m, task_id) ==
    IF \E i \in DOMAIN m : m[i].task_id = task_id
    THEN {m[i].chat_id : i \in {j \in DOMAIN m : m[j].task_id = task_id}}
    ELSE {555}

\* m.get(task_id): {} for None, {chat_id} otherwise.
DictGet(m, task_id) == {m[i].chat_id : i \in {j \in DOMAIN m : m[j].task_id = task_id}}

\* Mutant of DictSet: a list of pairs that is appended to, so that an earlier
\* binding of the task stays beside the new one.
DictSet_Append(m, task_id, chat_id) ==
    Append(m, [task_id |-> task_id, chat_id |-> chat_id])

\* m[task_id] = chat_id: an existing key keeps its position.
DictSet(m, task_id, chat_id) ==
    IF task_id \in DictKeys(m)
    THEN [i \in DOMAIN m |->
            IF m[i].task_id = task_id
            THEN [task_id |-> task_id, chat_id |-> chat_id]
            ELSE m[i]]
    ELSE Append(m, [task_id |-> task_id, chat_id |-> chat_id])

\* m.pop(task_id), the dict that is left.
DictPop(m, task_id) == SelectSeq(m, LAMBDA e : e.task_id # task_id)

\* {}
EmptyDict == [c \in {} |-> None]

\* Mutant of PendingSet: p.setdefault(chat_id, info), an entry that is
\* already there is kept.
PendingSet_KeepExisting(p, chat_id, info) ==
    [c \in DOMAIN p \cup {chat_id} |-> IF c \in DOMAIN p THEN p[c] ELSE info]

\* p[chat_id] = info
PendingSet(p, chat_id, info) ==
    [c \in DOMAIN p \cup {chat_id} |-> IF c = chat_id THEN info ELSE p[c]]

\* del p[chat_id] / p.pop(chat_id, None), the dict that is left.
PendingDel(p, chat_id) == [c \in DOMAIN p \ {chat_id} |-> p[c]]

\* Python truthiness of an optional chat id: None and 0 are falsy.
Truthy(opt) == opt # {} /\ opt # {0}

\* ------------------------------------------------------------ persistence
\* _save_registrations: json.dump of the whole mapping; every exception is
\* caught and logged, the file is then left as it was.
SaveRegistrations(m, file, written) ==
    IF written THEN [exists |-> TRUE, data |-> m] ELSE file

\* Mutant of SaveRaises: the exception of a failed save is not caught.
SaveRaises_Propagates(written) == ~written

\* Whether _save_registrations raises to its caller: the try around makedirs,
\* open and json.dump catches Exception and logs it.
SaveRaises(written) == FALSE

\* str(v) of an int read from the file: a minus sign, or none, and digits.
Str(v) == [minus |-> v < 0, digits |-> IF v < 0 THEN 0 - v ELSE v]

\* s.isdigit(): every character is a digit, a minus sign is none.
IsDigit(s) == ~s.minus

\* int(v) of an int.
IntOf(v) == v

\* _load_registrations: the mapping read from the file json.dump wrote (a
\* dict of str keys and int values, in the order written); an entry is kept
\* if str(v).isdigit(); no file: "Starting fresh".
LoadRegistrations(file) ==
    IF file.exists
    THEN LET kept == SelectSeq(file.data, LAMBDA e : IsDigit(Str(e.chat_id)))
         IN [i \in DOMAIN kept |->
                [task_id |-> kept[i].task_id, chat_id |-> IntOf(kept[i].chat_id)]]
    ELSE <<>>

\* -------------------------------------------------------- registration store
\* Mutant of RegisterTaskForChat: the mapping is replaced by the new binding.
RegisterTaskForChat_Replaces(m, task_id, chat_id) ==
    <<[task_id |-> task_id, chat_id |-> chat_id]>>

\* register_task_for_chat: the mapping after the call.
RegisterTaskForChat(m, task_id, chat_id) == DictSet(m, task_id, chat_id)

\* Mutant of UnregisterTask: pop(task_id, None) without the membership test,
\* True whether or not the task was registered.
UnregisterTask_ReturnsTrue(m, p, task_id) ==
    [mapping |-> DictPop(m, task_id),
     pending |-> LET removed == DictGet(m, task_id)
                 IN IF \E c \in removed : c \in DOMAIN p /\ p[c].taskId = task_id
                    THEN PendingDel(p, CHOOSE c \in removed : TRUE)
                    ELSE p,
     saves   |-> TRUE,
     ret     |-> TRUE]

\* Mutant of UnregisterTask: the chat's pending entry is cleared whatever
\* task it references.
UnregisterTask_ClearsAnyPending(m, p, task_id) ==
    IF task_id \in DictKeys(m)
    THEN [mapping |-> DictPop(m, task_id),
          pending |-> PendingDel(p, CHOOSE c \in DictGet(m, task_id) : TRUE),
          saves   |-> TRUE,
          ret     |-> TRUE]
    ELSE [mapping |-> m, pending |-> p, saves |-> FALSE, ret |-> FALSE]

\* unregister_task: the mapping and the pending dict after the call, whether
\* it saved, and its return value.
UnregisterTask(m, p, task_id) ==
    IF task_id \in DictKeys(m)
    THEN LET removed_chat_id == CHOOSE c \in DictGet(m, task_id) : TRUE
         IN [mapping |-> DictPop(m, task_id),
             pending |-> IF removed_chat_id \in DOMAIN p
                            /\ p[removed_chat_id].taskId = task_id
                         THEN PendingDel(p, removed_chat_id)
                         ELSE p,
             saves   |-> TRUE,
             ret     |-> TRUE]
    ELSE [mapping |-> m, pending |-> p, saves |-> FALSE, ret |-> FALSE]

\* send_telegram_message, the except telegram.error.Forbidden branch: the
\* first task (in dict order) whose chat is chat_id is unregistered.
ForbiddenCleanup(m, p, chat_id) ==
    LET hits == {i \in DOMAIN m : m[i].chat_id = chat_id}
    IN IF hits = {}
       THEN [mapping |-> m, pending |-> p, saves |-> FALSE, ret |-> FALSE]
       ELSE LET first == CHOOSE i \in hits : \A j \in hits : i <= j
            IN UnregisterTask(m, p, m[first].task_id)

\* The outcomes of awaiting bot.send_message.
BotSendOutcomes == {"sent", "Forbidden", "error"}

\* Frames the editor side may put on the socket (one JSON object per text
\* frame; json |-> FALSE is text json.loads rejects).  message.get(key) of a
\* missing key is None.
InboundFrames ==
    {[json |-> FALSE, type |-> None, taskId |-> None, question |-> None]}
    \cup {[json |-> TRUE, type |-> "status", taskId |-> t, question |-> "Proceed?"]
             : t \in TaskIds}
    \cup {[json |-> TRUE, type |-> "followup", taskId |-> t, question |-> q]
             : t \in TaskIds \cup {None}, q \in {"Proceed?", None}}

\* ------------------------------------------------------------------- Init
\* The chat-side coroutine: where it is (idle: nothing is being handled),
\* which entry point started it, the locals of handle_telegram_response that
\* live across its awaits, and what the last call put out: the frames it
\* handed to the editor side, what it told the human, and the value that
\* handle_telegram_response or unregister_task returned.
NoUpdate ==
    [pc |-> "idle", call |-> "none", chat_id |-> 0, task_id |-> None,
     pending_info |-> {}, payload |-> <<>>, conn |-> {}, frames |-> <<>>,
     told |-> "none", ret |-> "None"]

\* A call that is over.
Returned(call, told, ret, frames) ==
    [NoUpdate EXCEPT !.call = call, !.told = told, !.ret = ret, !.frames = frames]

\* A call on the registration store that is over: it also keeps the chat and
\* the task id it was made with.
ReturnedFor(call, chat_id, task_id, told, ret) ==
    [Returned(call, told, ret, <<>>) EXCEPT !.chat_id = chat_id,
                                           !.task_id = task_id]

\* A connection handler: where it is, whether its connection is open, and
\* the locals of process_incoming_websocket_notification that live across its
\* await (overwrote: it logged "Overwriting previous pending question").
NoHandler ==
    [pc |-> "none", open |-> FALSE, chat_id |-> 0, task_id |-> None,
     overwrote |-> FALSE]

\* run_bot.main after start_services has returned: it waits on a future
\* that never completes, and the updater of the chat transport polls.
Serving == [pc |-> "serving", polling |-> TRUE]

\* _load_registrations with no registrations.json on disk: "Starting fresh".
InitWith(send_func) ==
    /\ main = Serving
    /\ registration_file = [exists |-> FALSE, data |-> <<>>]
    /\ disk_writable = TRUE
    /\ task_to_chat_mapping = <<>>
    /\ pending_telegram_responses = EmptyDict
    /\ websocket_send_func = send_func
    /\ active_websocket = {}
    /\ ws = [k \in Conns |-> NoHandler]
    /\ tg = NoUpdate

\* run_bot.main builds the system with websocket_send_func =
\* send_websocket_message.
Init == InitWith("send_websocket_message")

\* A test builds it with a simulated send function, which may raise, and
\* calls the system's methods directly.
InitSimulated == InitWith("simulated")

\* ------------------------------------------------- run_bot.py: the socket
\* websocket_handler up to its first await: a connection arriving while
\* another is active is closed ("Already connected"), otherwise it becomes
\* the active connection and the handler waits for its first frame.
\* A new connection is a new object: it has no handler yet and is none of
\* the connections a suspended send still holds.  It gets the lowest free
\* number (the numbers only name the objects).
FreeConn(k) == ws[k].pc = "none" /\ k \notin tg.conn

websocket_handler_connect(k) ==
    /\ FreeConn(k)
    /\ \A j \in Conns : j < k => ~FreeConn(j)
    /\ IF active_websocket # {}
       THEN /\ ws' = [ws EXCEPT ![k] = [NoHandler EXCEPT !.pc = "close", !.open = TRUE]]
            /\ UNCHANGED active_websocket
       ELSE /\ active_websocket' = {k}
            /\ ws' = [ws EXCEPT ![k] = [NoHandler EXCEPT !.pc = "recv", !.open = TRUE]]
    /\ UNCHANGED <<task_to_chat_mapping, pending_telegram_responses,
                   registration_file, disk_writable, websocket_send_func, tg>>
    /\ UNCHANGED main

\* Mutant of websocket_handler_rejected: the rejected handler leaves through
\* a finally clause that clears active_websocket without comparing it.
websocket_handler_rejected_ClearsActive(k) ==
    /\ ws[k].pc = "close"
    /\ ws' = [ws EXCEPT ![k] = NoHandler]
    /\ active_websocket' = {}
    /\ UNCHANGED <<task_to_chat_mapping, pending_telegram_responses,
                   registration_file, disk_writable, websocket_send_func, tg>>
    /\ UNCHANGED main

\* await websocket.close(reason="Already connected") is over: return.  The
\* return is before the try, so the finally clause does not run.
websocket_handler_rejected(k) ==
    /\ ws[k].pc = "close"
    /\ ws' = [ws EXCEPT ![k] = NoHandler]
    /\ UNCHANGED <<task_to_chat_mapping, pending_telegram_responses,
                   registration_file, disk_writable, websocket_send_func, active_websocket, tg>>
    /\ UNCHANGED main

\* The peer closes the connection, or the connection breaks.
ConnectionLost(k) ==
    /\ ws[k].pc \in {"recv", "notify"}
    /\ ws[k].open
    /\ ws' = [ws EXCEPT ![k].open = FALSE]
    /\ UNCHANGED <<task_to_chat_mapping, pending_telegram_responses,
                   registration_file, disk_writable, websocket_send_func, active_websocket, tg>>
    /\ UNCHANGED main

\* Mutant of websocket_handler_finally: the handler ends without clearing
\* active_websocket.
websocket_handler_finally_KeepsActive(k) ==
    /\ ws[k].pc = "recv"
    /\ ~ws[k].open
    /\ ws' = [ws EXCEPT ![k] = NoHandler]
    /\ UNCHANGED <<task_to_chat_mapping, pending_telegram_responses,
                   registration_file, disk_writable, websocket_send_func,
                   active_websocket, tg>>
    /\ UNCHANGED main

\* Mutant of websocket_handler_finally: the questions pending are dropped
\* when the active connection ends.
websocket_handler_finally_ClearsPending(k) ==
    /\ ws[k].pc = "recv"
    /\ ~ws[k].open
    /\ active_websocket' = IF active_websocket = {k} THEN {} ELSE active_websocket
    /\ pending_telegram_responses' = EmptyDict
    /\ ws' = [ws EXCEPT ![k] = NoHandler]
    /\ UNCHANGED <<task_to_chat_mapping, registration_file, disk_writable,
                   websocket_send_func, tg>>
    /\ UNCHANGED main

\* The async-for ends (normal close) or raises (ConnectionClosedError, any
\* other exception); the finally clause clears active_websocket if it is
\* this connection.
websocket_handler_finally(k) ==
    /\ ws[k].pc = "recv"
    /\ ~ws[k].open
    /\ active_websocket' = IF active_websocket = {k} THEN {} ELSE active_websocket
    /\ ws' = [ws EXCEPT ![k] = NoHandler]
    /\ UNCHANGED <<task_to_chat_mapping, pending_telegram_responses,
                   registration_file, disk_writable, websocket_send_func, tg>>
    /\ UNCHANGED main

\* Mutant of IsFollowup: the frame is forwarded on its type alone.
IsFollowup_TypeOnly(frame) == frame.json /\ frame.type = "followup"

\* Whether websocket_handler forwards the frame to the notification system:
\* it parses, its type is "followup", taskId and question are truthy.
IsFollowup(frame) ==
    /\ frame.json
    /\ frame.type = "followup"
    /\ frame.taskId \notin {None, ""}
    /\ frame.question \notin {None, ""}

\* Mutant of websocket_handler_message: the send is started without the
\* pending entry having been written.
websocket_handler_message_SendBeforeSet(k, frame) ==
    /\ ws[k].pc = "recv"
    /\ ws[k].open
    /\ LET chat_id == DictGet(task_to_chat_mapping, frame.taskId)
       IN IF IsFollowup(frame) /\ Truthy(chat_id)
          THEN LET c == CHOOSE c \in chat_id : TRUE
               IN ws' = [ws EXCEPT ![k].pc = "notify", ![k].chat_id = c,
                                   ![k].task_id = frame.taskId,
                                   ![k].overwrote =
                                       c \in DOMAIN pending_telegram_responses]
          ELSE UNCHANGED ws
    /\ UNCHANGED <<task_to_chat_mapping, pending_telegram_responses,
                   registration_file, disk_writable, websocket_send_func,
                   active_websocket, tg>>
    /\ UNCHANGED main

\* One frame read by the active connection's handler.  A followup goes
\* through process_incoming_websocket_notification up to its await of
\* send_telegram_message: look the chat up, return if there is none,
\* otherwise store the pending entry (overwriting) and start the send.
\* Every other frame is logged only.
websocket_handler_message(k, frame) ==
    /\ ws[k].pc = "recv"
    /\ ws[k].open
    /\ LET chat_id == DictGet(task_to_chat_mapping, frame.taskId)
       IN IF IsFollowup(frame) /\ Truthy(chat_id)
          THEN LET c == CHOOSE c \in chat_id : TRUE
               IN /\ pending_telegram_responses' =
                        PendingSet(pending_telegram_responses, c,
                                   [taskId |-> frame.taskId])
                  /\ ws' = [ws EXCEPT ![k].pc = "notify", ![k].chat_id = c,
                                      ![k].task_id = frame.taskId,
                                      ![k].overwrote =
                                          c \in DOMAIN pending_telegram_responses]
          ELSE UNCHANGED <<pending_telegram_responses, ws>>
    /\ UNCHANGED <<task_to_chat_mapping, registration_file, disk_writable, websocket_send_func,
                   active_websocket, tg>>
    /\ UNCHANGED main

\* Mutant of notification_send_done: every failed send, not only Forbidden,
\* unregisters the first task of the chat.
notification_send_done_AnyFailureCleans(k, outcome) ==
    /\ ws[k].pc = "notify"
    /\ LET r == IF outcome # "sent"
                THEN ForbiddenCleanup(task_to_chat_mapping,
                                      pending_telegram_responses, ws[k].chat_id)
                ELSE [mapping |-> task_to_chat_mapping,
                      pending |-> pending_telegram_responses,
                      saves |-> FALSE, ret |-> FALSE]
       IN /\ task_to_chat_mapping' = r.mapping
          /\ pending_telegram_responses' = r.pending
          /\ registration_file' =
                IF r.saves
                THEN SaveRegistrations(r.mapping, registration_file, disk_writable)
                ELSE registration_file
    /\ ws' = [ws EXCEPT ![k].pc = "recv", ![k].chat_id = 0, ![k].task_id = None,
                        ![k].overwrote = FALSE]
    /\ UNCHANGED <<disk_writable, websocket_send_func, active_websocket, tg>>
    /\ UNCHANGED main

\* Mutant of notification_send_done: a failed send is not caught, the
\* exception ends the handler's async-for and its finally clause runs.
notification_send_done_FailureEndsLoop(k, outcome) ==
    /\ ws[k].pc = "notify"
    /\ IF outcome = "sent"
       THEN /\ ws' = [ws EXCEPT ![k].pc = "recv", ![k].chat_id = 0,
                                ![k].task_id = None, ![k].overwrote = FALSE]
            /\ UNCHANGED active_websocket
       ELSE /\ ws' = [ws EXCEPT ![k] = NoHandler]
            /\ active_websocket' =
                  IF active_websocket = {k} THEN {} ELSE active_websocket
    /\ UNCHANGED <<task_to_chat_mapping, pending_telegram_responses,
                   registration_file, disk_writable, websocket_send_func, tg>>
    /\ UNCHANGED main

\* send_telegram_message after its await of bot.send_message, called from
\* process_incoming_websocket_notification: True, or on Forbidden the
\* unregistration of the first task of that chat, or a logged error.  The
\* handler then waits for the next frame.
notification_send_done(k, outcome) ==
    /\ ws[k].pc = "notify"
    /\ LET r == IF outcome = "Forbidden"
                THEN ForbiddenCleanup(task_to_chat_mapping,
                                      pending_telegram_responses, ws[k].chat_id)
                ELSE [mapping |-> task_to_chat_mapping,
                      pending |-> pending_telegram_responses,
                      saves |-> FALSE, ret |-> FALSE]
       IN /\ task_to_chat_mapping' = r.mapping
          /\ pending_telegram_responses' = r.pending
          /\ registration_file' =
                IF r.saves
                THEN SaveRegistrations(r.mapping, registration_file, disk_writable)
                ELSE registration_file
    /\ ws' = [ws EXCEPT ![k].pc = "recv", ![k].chat_id = 0, ![k].task_id = None,
                        ![k].overwrote = FALSE]
    /\ UNCHANGED <<disk_writable, websocket_send_func, active_websocket, tg>>
    /\ UNCHANGED main

\* ------------------------------------- telegram_notification_system.py: chat
\* The Application handles one update at a time (concurrent_updates is off
\* by default): a handler starts only when the previous one has returned.

\* /start
start_command(c) ==
    /\ tg.pc = "idle"
    /\ tg' = Returned("start_command", "welcome", "None", <<>>)
    /\ UNCHANGED <<task_to_chat_mapping, pending_telegram_responses,
                   registration_file, disk_writable, websocket_send_func,
                   active_websocket, ws>>
    /\ UNCHANGED main

\* /register [task_id]
register_command(c, args) ==
    /\ tg.pc = "idle"
    /\ IF Len(args) = 0
       THEN /\ tg' = Returned("register_command", "usage", "None", <<>>)
            /\ UNCHANGED <<task_to_chat_mapping, registration_file>>
       ELSE LET task_id == args[1]
                m == RegisterTaskForChat(task_to_chat_mapping, task_id, c)
            IN /\ task_to_chat_mapping' = m
               /\ registration_file' =
                     SaveRegistrations(m, registration_file, disk_writable)
               /\ tg' = ReturnedFor("register_command", c, task_id, "linked",
                                     "None")
    /\ UNCHANGED <<pending_telegram_responses, disk_writable, websocket_send_func,
                   active_websocket, ws>>
    /\ UNCHANGED main

\* Mutant of LinkedToThisChat: the task is registered, to whatever chat.
LinkedToThisChat_AnyChat(m, task_id, chat_id) == task_id \in DictKeys(m)

\* Mutant of LinkedToThisChat: a task that is not registered passes the test
\* too (get(task_id) is chat_id or None).
LinkedToThisChat_OrUnregistered(m, task_id, chat_id) ==
    DictGet(m, task_id) \subseteq {chat_id}

\* unregister_command's test before it unregisters:
\* self.task_to_chat_mapping.get(task_id) != chat_id is false.
LinkedToThisChat(m, task_id, chat_id) == DictGet(m, task_id) = {chat_id}

\* /unregister [task_id]
unregister_command(c, args) ==
    /\ tg.pc = "idle"
    /\ IF Len(args) = 0
       THEN /\ tg' = Returned("unregister_command", "usage", "None", <<>>)
            /\ UNCHANGED <<task_to_chat_mapping, pending_telegram_responses,
                           registration_file>>
       ELSE LET task_id == args[1]
            IN IF ~LinkedToThisChat(task_to_chat_mapping, task_id, c)
               THEN /\ tg' = ReturnedFor("unregister_command", c, task_id,
                                         "not linked to this chat", "None")
                    /\ UNCHANGED <<task_to_chat_mapping,
                                   pending_telegram_responses, registration_file>>
               ELSE LET r == UnregisterTask(task_to_chat_mapping,
                                            pending_telegram_responses, task_id)
                    IN /\ task_to_chat_mapping' = r.mapping
                       /\ pending_telegram_responses' = r.pending
                       /\ registration_file' =
                             IF r.saves
                             THEN SaveRegistrations(r.mapping, registration_file,
                                                    disk_writable)
                             ELSE registration_file
                       /\ tg' = ReturnedFor("unregister_command", c, task_id,
                                            IF r.ret THEN "unlinked"
                                                     ELSE "could not find",
                                            IF r.ret THEN "True" ELSE "False")
    /\ UNCHANGED <<disk_writable, websocket_send_func, active_websocket, ws>>
    /\ UNCHANGED main

\* The reply envelope of handle_telegram_response (json.dumps of the dict).
ReplyPayload(task_id, response_text) ==
    [type |-> "reply", taskId |-> task_id, reply |-> response_text]

\* Mutant of PendingPop: the entry is read (get) and left in the dict.
PendingPop_Get(p, chat_id) ==
    [info |-> IF chat_id \in DOMAIN p THEN {p[chat_id]} ELSE {}, rest |-> p]

\* Mutant of PendingPop: pop(chat_id, default) with an entry as the default.
PendingPop_Default(p, chat_id) ==
    [info |-> IF chat_id \in DOMAIN p THEN {p[chat_id]}
                                       ELSE {[taskId |-> "abc123"]},
     rest |-> PendingDel(p, chat_id)]

\* pending_telegram_responses.pop(chat_id, None): what is popped ({} for
\* None) and the dict that is left.
PendingPop(p, chat_id) ==
    [info |-> IF chat_id \in DOMAIN p THEN {p[chat_id]} ELSE {},
     rest |-> PendingDel(p, chat_id)]

\* send_websocket_message up to its await: with no active connection it logs
\* an error and returns at once; with one it awaits active_websocket.send.
\* The simulated function always awaits its transport.
SendSuspends(send_func, active) ==
    IF send_func = "send_websocket_message" THEN active # {} ELSE TRUE

\* The connection the awaited send writes to: run_bot's function sends on
\* the connection that is active when it is called, the simulated one on none.
SendConnection(send_func, active) ==
    IF send_func = "send_websocket_message" THEN active ELSE {}

\* What the awaited send can do: run_bot's sends on the connection that was
\* active at the call (ConnectionClosed once that connection is closed, and
\* any other exception); the simulated one succeeds or fails as the test
\* decides.
SendOutcomes(send_func, conn_open) ==
    IF send_func = "send_websocket_message"
    THEN IF conn_open THEN {"ok", "error"} ELSE {"ConnectionClosed"}
    ELSE {"ok", "error"}

\* Whether the send function raises to handle_telegram_response:
\* send_websocket_message catches ConnectionClosed* and Exception and only
\* logs them; the simulated function raises its failure.
SendRaises(send_func, outcome) ==
    IF send_func = "send_websocket_message" THEN FALSE ELSE outcome # "ok"

\* What the caller of handle_telegram_response does with its result:
\* handle_telegram_message_input tells the human "Your response has been
\* sent" if it is True and nothing otherwise.
AfterResponse(caller, success, told, frames) ==
    Returned(caller,
             IF caller = "handle_telegram_message_input" /\ success
             THEN "sent" ELSE told,
             IF success THEN "True" ELSE "False",
             frames)

\* handle_telegram_response up to the await inside the send function: pop
\* the pending entry, return False if there is none, build the envelope and
\* call websocket_send_func.
handle_telegram_response(caller, chat_id, response_text) ==
    LET popped == PendingPop(pending_telegram_responses, chat_id)
    IN /\ pending_telegram_responses' = popped.rest
       /\ IF popped.info = {}
          THEN tg' = AfterResponse(caller, FALSE, "none", <<>>)
          ELSE LET task_id == (CHOOSE i \in popped.info : TRUE).taskId
                   reply_payload == ReplyPayload(task_id, response_text)
               IN IF SendSuspends(websocket_send_func, active_websocket)
                  THEN tg' = [NoUpdate EXCEPT !.pc = "ws_send",
                                              !.call = caller,
                                              !.chat_id = chat_id,
                                              !.pending_info = popped.info,
                                              !.payload = <<reply_payload>>,
                                              !.conn = SendConnection(websocket_send_func,
                                                                      active_websocket)]
                  ELSE tg' = AfterResponse(caller, TRUE, "none", <<>>)

\* Mutant of handle_telegram_message_input: the handler is suspended between
\* its check of the pending dict and the pop in handle_telegram_response.
handle_telegram_message_input_Suspends(c, text) ==
    /\ \/ /\ tg.pc = "idle"
          /\ IF c \notin DOMAIN pending_telegram_responses
             THEN tg' = Returned("handle_telegram_message_input", "not waiting",
                                 "None", <<>>)
             ELSE tg' = [NoUpdate EXCEPT !.pc = "checked",
                                         !.call = "handle_telegram_message_input",
                                         !.chat_id = c,
                                         !.payload = <<ReplyPayload(None, text)>>]
          /\ UNCHANGED pending_telegram_responses
       \/ /\ tg.pc = "checked"
          /\ tg.chat_id = c
          /\ tg.payload = <<ReplyPayload(None, text)>>
          /\ handle_telegram_response("handle_telegram_message_input", c, text)
    /\ UNCHANGED <<task_to_chat_mapping, registration_file, disk_writable,
                   websocket_send_func, active_websocket, ws>>
    /\ UNCHANGED main

\* A text message that is no command.
handle_telegram_message_input(c, text) ==
    /\ tg.pc = "idle"
    /\ IF c \notin DOMAIN pending_telegram_responses
       THEN /\ tg' = Returned("handle_telegram_message_input", "not waiting",
                              "None", <<>>)
            /\ UNCHANGED pending_telegram_responses
       ELSE handle_telegram_response("handle_telegram_message_input", c, text)
    /\ UNCHANGED <<task_to_chat_mapping, registration_file, disk_writable,
                   websocket_send_func, active_websocket, ws>>
    /\ UNCHANGED main

\* Mutant of RestorePending: the except clause does not put the entry back.
RestorePending_NotRestored(p, chat_id, pending_info) == p

\* The pending dict after handle_telegram_response's except clause:
\* self.pending_telegram_responses[chat_id] = pending_info.
RestorePending(p, chat_id, pending_info) ==
    PendingSet(p, chat_id, CHOOSE i \in pending_info : TRUE)

\* Mutant of websocket_send_done: the popped entry is put back whether the
\* send function raised or returned.
websocket_send_done_RestoresAlways(outcome) ==
    /\ tg.pc = "ws_send"
    /\ outcome \in SendOutcomes(websocket_send_func,
                                 \E k \in tg.conn : ws[k].open)
    /\ pending_telegram_responses' =
          RestorePending(pending_telegram_responses, tg.chat_id, tg.pending_info)
    /\ IF SendRaises(websocket_send_func, outcome)
       THEN tg' = [tg EXCEPT !.pc = "notify_error"]
       ELSE tg' = AfterResponse(tg.call, TRUE, "none",
                                IF outcome = "ok" THEN tg.payload ELSE <<>>)
    /\ UNCHANGED <<task_to_chat_mapping, registration_file, disk_writable,
                   websocket_send_func, active_websocket, ws>>
    /\ UNCHANGED main

\* The await of websocket_send_func is over.  If it returned, the reply
\* counts as sent (return True); if it raised, the popped entry is put back
\* and the error notice is sent.
websocket_send_done(outcome) ==
    /\ tg.pc = "ws_send"
    /\ outcome \in SendOutcomes(websocket_send_func,
                                 \E k \in tg.conn : ws[k].open)
    /\ IF SendRaises(websocket_send_func, outcome)
       THEN /\ pending_telegram_responses' =
                  RestorePending(pending_telegram_responses, tg.chat_id,
                                 tg.pending_info)
            /\ tg' = [tg EXCEPT !.pc = "notify_error"]
       ELSE /\ tg' = AfterResponse(tg.call, TRUE, "none",
                                   IF outcome = "ok" THEN tg.payload ELSE <<>>)
            /\ UNCHANGED pending_telegram_responses
    /\ UNCHANGED <<task_to_chat_mapping, registration_file, disk_writable,
                   websocket_send_func, active_websocket, ws>>
    /\ UNCHANGED main

\* send_telegram_message after its await, called from the except clause of
\* handle_telegram_response ("Error: Could not deliver your response"),
\* which then returns False.
error_notice_done(outcome) ==
    /\ tg.pc = "notify_error"
    /\ LET r == IF outcome = "Forbidden"
                THEN ForbiddenCleanup(task_to_chat_mapping,
                                      pending_telegram_responses, tg.chat_id)
                ELSE [mapping |-> task_to_chat_mapping,
                      pending |-> pending_telegram_responses,
                      saves |-> FALSE, ret |-> FALSE]
       IN /\ task_to_chat_mapping' = r.mapping
          /\ pending_telegram_responses' = r.pending
          /\ registration_file' =
                IF r.saves
                THEN SaveRegistrations(r.mapping, registration_file, disk_writable)
                ELSE registration_file
    /\ tg' = AfterResponse(tg.call, FALSE,
                           IF outcome = "sent" THEN "delivery failed" ELSE "none",
                           <<>>)
    /\ UNCHANGED <<disk_writable, websocket_send_func, active_websocket, ws>>
    /\ UNCHANGED main

\* ------------------------------------------------ direct calls (simulated)
\* A test that builds the system with a simulated send function calls its
\* methods itself, one call at a time.

\* await system.handle_telegram_response(chat_id, response_text)
handle_telegram_response_call(c, text) ==
    /\ websocket_send_func = "simulated"
    /\ tg.pc = "idle"
    /\ handle_telegram_response("handle_telegram_response", c, text)
    /\ UNCHANGED <<task_to_chat_mapping, registration_file, disk_writable,
                   websocket_send_func, active_websocket, ws>>
    /\ UNCHANGED main

\* system.unregister_task(task_id); the chat kept with the call is its
\* removed_chat_id.
unregister_task(task_id) ==
    /\ websocket_send_func = "simulated"
    /\ tg.pc = "idle"
    /\ LET r == UnregisterTask(task_to_chat_mapping, pending_telegram_responses,
                               task_id)
       IN /\ task_to_chat_mapping' = r.mapping
          /\ pending_telegram_responses' = r.pending
          /\ registration_file' =
                IF r.saves
                THEN SaveRegistrations(r.mapping, registration_file, disk_writable)
                ELSE registration_file
          /\ tg' = ReturnedFor("unregister_task",
                               IF DictGet(task_to_chat_mapping, task_id) # {}
                               THEN CHOOSE removed_chat_id \in
                                       DictGet(task_to_chat_mapping, task_id) : TRUE
                               ELSE 0,
                               task_id, "none",
                               IF r.saves /\ SaveRaises(disk_writable)
                               THEN "raised"
                               ELSE IF r.ret THEN "True" ELSE "False")
    /\ UNCHANGED <<disk_writable, websocket_send_func, active_websocket, ws>>
    /\ UNCHANGED main

\* Chat ids the store is called with directly: a private chat's and a
\* group's (groups have negative ids).
StoreChatIds == {555, -1001}

\* system.register_task_for_chat(task_id, chat_id)
register_task_for_chat(task_id, chat_id) ==
    /\ websocket_send_func = "simulated"
    /\ tg.pc = "idle"
    /\ LET m == RegisterTaskForChat(task_to_chat_mapping, task_id, chat_id)
       IN /\ task_to_chat_mapping' = m
          /\ registration_file' =
                SaveRegistrations(m, registration_file, disk_writable)
    /\ tg' = ReturnedFor("register_task_for_chat", chat_id, task_id, "none",
                         IF SaveRaises(disk_writable) THEN "raised" ELSE "None")
    /\ UNCHANGED <<pending_telegram_responses, disk_writable,
                   websocket_send_func, active_websocket, ws>>
    /\ UNCHANGED main

\* The directory or the file becomes unwritable (makedirs or open raise), or
\* writable again.
DiskChanges ==
    /\ disk_writable' = ~disk_writable
    /\ UNCHANGED <<task_to_chat_mapping, pending_telegram_responses,
                   registration_file, websocket_send_func, active_websocket,
                   ws, tg>>
    /\ UNCHANGED main

\* The process is started again: __init__ loads the registrations file, the
\* pending dict is empty and there is no connection.
Restart ==
    /\ websocket_send_func = "simulated"
    /\ tg.pc = "idle"
    /\ task_to_chat_mapping' = LoadRegistrations(registration_file)
    /\ pending_telegram_responses' = EmptyDict
    /\ active_websocket' = {}
    /\ ws' = [k \in Conns |-> NoHandler]
    /\ tg' = Returned("__init__", "none", "None", <<>>)
    /\ UNCHANGED <<registration_file, disk_writable, websocket_send_func>>
    /\ UNCHANGED main

\* ------------------------------------------------- run_bot.py: shutdown
\* run_bot.main between websockets.serve and the return of start_services:
\* the socket server accepts connections, the updater does not poll yet.
Starting == [pc |-> "starting", polling |-> FALSE]

\* start_services: the handlers are added, the application is initialized
\* and started, and the updater starts polling; main then waits forever.
start_services ==
    /\ main.pc = "starting"
    /\ main' = Serving
    /\ UNCHANGED <<task_to_chat_mapping, pending_telegram_responses,
                   registration_file, disk_writable, websocket_send_func,
                   active_websocket, ws, tg>>

\* The interrupt is raised in main's own frame: its except KeyboardInterrupt
\* clause closes the active connection, if there is one, and calls
\* sys.exit(0).  Nothing in the clause stops the updater.
main_KeyboardInterrupt ==
    /\ main.pc # "exited"
    /\ ws' = [k \in Conns |->
                IF k \in active_websocket THEN [ws[k] EXCEPT !.open = FALSE]
                                          ELSE ws[k]]
    /\ main' = [main EXCEPT !.pc = "exited"]
    /\ UNCHANGED <<task_to_chat_mapping, pending_telegram_responses,
                   registration_file, disk_writable, websocket_send_func,
                   active_websocket, tg>>

\* The interrupt reaches main as the cancellation of its pending await (the
\* event loop's runner cancels the main task), or the process is terminated
\* by a signal it does not handle: no except clause of main matches, and
\* the process ends without running any statement of main.
main_Cancelled ==
    /\ main.pc # "exited"
    /\ main' = [main EXCEPT !.pc = "exited"]
    /\ UNCHANGED <<task_to_chat_mapping, pending_telegram_responses,
                   registration_file, disk_writable, websocket_send_func,
                   active_websocket, ws, tg>>

\* ------------------------------------------------------------------- Next
\* context.args of a command: no argument, or a task id.
CommandArgs == {<<>>} \cup {<<t>> : t \in TaskIds}

\* run_bot.py as it runs.  send_websocket_message never raises, so the
\* except clause of handle_telegram_response and its error notice are never
\* reached (ExceptClauseUnreached below); error_notice_done is therefore
\* only part of NextSimulated.
Next ==
    \/ \E k \in Conns : websocket_handler_connect(k)
    \/ \E k \in Conns : websocket_handler_rejected(k)
    \/ \E k \in Conns : ConnectionLost(k)
    \/ \E k \in Conns : websocket_handler_finally(k)
    \/ \E k \in Conns, frame \in InboundFrames : websocket_handler_message(k, frame)
    \/ \E k \in Conns, outcome \in BotSendOutcomes : notification_send_done(k, outcome)
    \/ \E c \in ChatIds : start_command(c)
    \/ \E c \in ChatIds, args \in CommandArgs : register_command(c, args)
    \/ \E c \in ChatIds, args \in CommandArgs : unregister_command(c, args)
    \/ \E c \in ChatIds, text \in ReplyTexts : handle_telegram_message_input(c, text)
    \/ \E outcome \in {"ok", "error", "ConnectionClosed"} : websocket_send_done(outcome)

\* The system under a test's simulated send function and direct calls.
NextSimulated ==
    \/ Next
    \/ \E outcome \in BotSendOutcomes : error_notice_done(outcome)
    \/ \E c \in ChatIds, text \in ReplyTexts : handle_telegram_response_call(c, text)
    \/ \E task_id \in TaskIds : unregister_task(task_id)

Spec == Init /\ [][Next]_vars

\* The same program on an event loop that runs every coroutine that can run:
\* an awaited bot.send_message ends (the bot's HTTP requests time out), and
\* a handler whose connection is closed leaves its async-for.
Fairness ==
    /\ WF_vars(\E k \in Conns, outcome \in BotSendOutcomes :
                  notification_send_done(k, outcome))
    /\ WF_vars(\E k \in Conns : websocket_handler_finally(k))

SpecFair == Spec /\ Fairness

SpecSimulated == InitSimulated /\ [][NextSimulated]_vars

\* The registration store on its own: direct calls of register_task_for_chat
\* and unregister_task on a disk that may refuse the save, and restarts.
NextStore ==
    \/ \E t \in TaskIds, c \in StoreChatIds : register_task_for_chat(t, c)
    \/ \E t \in TaskIds : unregister_task(t)
    \/ DiskChanges
    \/ Restart

SpecStore == InitSimulated /\ [][NextStore]_vars

\* run_bot.py from the start of its socket server to the end of the process:
\* connections are served while the process lives, chat updates are handled
\* while the updater polls, and a shutdown signal may arrive at any moment.
InitShutdown ==
    /\ registration_file = [exists |-> FALSE, data |-> <<>>]
    /\ disk_writable = TRUE
    /\ task_to_chat_mapping = <<>>
    /\ pending_telegram_responses = EmptyDict
    /\ websocket_send_func = "send_websocket_message"
    /\ active_websocket = {}
    /\ ws = [k \in Conns |-> NoHandler]
    /\ tg = NoUpdate
    /\ main = Starting

NextShutdown ==
    \/ start_services
    \/ main_KeyboardInterrupt
    \/ main_Cancelled
    \/ /\ main.pc # "exited"
       /\ \/ \E k \in Conns : websocket_handler_connect(k)
          \/ \E k \in Conns : websocket_handler_rejected(k)
          \/ \E k \in Conns : ConnectionLost(k)
          \/ \E k \in Conns : websocket_handler_finally(k)
          \/ \E k \in Conns, frame \in InboundFrames :
                websocket_handler_message(k, frame)
          \/ \E k \in Conns, outcome \in BotSendOutcomes :
                notification_send_done(k, outcome)
    \/ /\ main.pc = "serving"
       /\ \/ \E c \in ChatIds : start_command(c)
          \/ \E c \in ChatIds, args \in CommandArgs : register_command(c, args)
          \/ \E c \in ChatIds, args \in CommandArgs : unregister_command(c, args)
          \/ \E c \in ChatIds, text \in ReplyTexts :
                handle_telegram_message_input(c, text)
          \/ \E outcome \in {"ok", "error", "ConnectionClosed"} :
                websocket_send_done(outcome)

SpecShutdown == InitShutdown /\ [][NextShutdown]_vars

\* In run_bot's wiring handle_telegram_response never enters its except
\* clause.
ExceptClauseUnreached == tg.pc # "notify_error"

\* =================================================================== claims
\* lookup(task_id) of the registration store.
Lookup(task_id) == DictGet(task_to_chat_mapping, task_id)

\* The task of the pending entry handle_telegram_response popped.
PoppedTask == (CHOOSE i \in tg.pending_info : TRUE).taskId

\* A step in which the awaited send function ends without the envelope
\* having been handed over: the dispatch failed.
DispatchFailsInFlight ==
    /\ tg.pc = "ws_send"
    /\ tg'.pc # "ws_send"
    /\ tg'.frames = <<>>

\* A step in which the awaited send function ends with the envelope handed
\* over.
DispatchSucceeds ==
    /\ tg.pc = "ws_send"
    /\ tg'.pc # "ws_send"
    /\ tg'.frames # <<>>

\* ----------------------------------------------------------------------- C1
\* C1: when the send function of handle_telegram_response fails (the
\* simulated send raises), the step that ends the dispatch puts the popped
\* entry back for the same chat with the same task id; and whenever a reply
\* from a chat is dispatched, its envelope names the task of that chat's
\* pending entry, so a repeat reply is an envelope for the restored task.
C1_FailedDispatchRestoresPending ==
    [][ /\ DispatchFailsInFlight =>
             /\ tg.chat_id \in DOMAIN pending_telegram_responses'
             /\ pending_telegram_responses'[tg.chat_id] = [taskId |-> PoppedTask]
        /\ (tg.pc = "idle" /\ tg'.pc = "ws_send") =>
             /\ tg'.chat_id \in DOMAIN pending_telegram_responses
             /\ tg'.payload[1].taskId =
                  pending_telegram_responses[tg'.chat_id].taskId
      ]_vars

\* A failed dispatch has just put the entry back: the error notice is on its
\* way and the chat's pending entry is the popped one.
C1_Witness ==
    /\ tg.pc = "notify_error"
    /\ tg.chat_id \in DOMAIN pending_telegram_responses
    /\ pending_telegram_responses[tg.chat_id] = [taskId |-> PoppedTask]

\* ----------------------------------------------------------------------- C2
\* C2 (as claimed): in run_bot's wiring a reply handled while no connection
\* is active, or whose connection is closed when the send ends, is a
\* delivery failure: the chat's pending entry references the same task once
\* the reply has been handled.
C2_UndeliveredReplyKeepsPending ==
    [][ /\ \A c \in ChatIds, text \in ReplyTexts :
              ( /\ tg.pc = "idle"
                /\ c \in DOMAIN pending_telegram_responses
                /\ active_websocket = {}
                /\ handle_telegram_message_input(c, text) )
              => /\ c \in DOMAIN pending_telegram_responses'
                 /\ pending_telegram_responses'[c] = pending_telegram_responses[c]
        /\ ( /\ DispatchFailsInFlight
             /\ \A k \in tg.conn : ~ws[k].open )
           => /\ tg.chat_id \in DOMAIN pending_telegram_responses'
              /\ pending_telegram_responses'[tg.chat_id] = [taskId |-> PoppedTask]
      ]_vars

\* ----------------------------------------------------------------------- C3
\* C3 (as claimed): after a text message from a chat with a pending question
\* has gone through handle_telegram_response, the human has been told
\* "sent" only if the envelope was handed to the connection, and has been
\* told that delivery failed otherwise.
C3_ToldSentOnlyIfHanded ==
    ( /\ tg.pc = "idle"
      /\ tg.call = "handle_telegram_message_input"
      /\ tg.ret # "None" )
    => IF tg.frames # <<>> THEN tg.told = "sent" ELSE tg.told = "delivery failed"

\* ----------------------------------------------------------------------- C4
\* C4: a reply text r from chat c whose pending entry references task t
\* removes that entry as it is taken up and builds the envelope
\* {type: "reply", taskId: t, reply: r}; the handler's locals do not change
\* while the send is in flight; a send that succeeds hands over exactly that
\* one envelope and leaves the pending dict as it is, so that chat c has no
\* pending entry afterwards unless a new question was routed to c while the
\* send was in flight (the only step that adds an entry then).
C4_ReplyEnvelopeAndPendingCleared ==
    [][ /\ \A c \in ChatIds, r \in ReplyTexts :
              ( /\ tg.pc = "idle"
                /\ c \in DOMAIN pending_telegram_responses
                /\ tg'.call = "handle_telegram_message_input"
                /\ handle_telegram_message_input(c, r) )
              => /\ c \notin DOMAIN pending_telegram_responses'
                 /\ tg'.frames = <<>>
                 /\ tg'.pc = "ws_send" =>
                      /\ tg'.chat_id = c
                      /\ tg'.payload =
                           << [type |-> "reply",
                               taskId |-> pending_telegram_responses[c].taskId,
                               reply |-> r] >>
        /\ (tg.pc = "ws_send" /\ tg'.pc = "ws_send") =>
              /\ tg' = tg
              /\ ( /\ tg.chat_id \notin DOMAIN pending_telegram_responses
                   /\ tg.chat_id \in DOMAIN pending_telegram_responses' )
                 => \E k \in Conns : /\ ws[k].pc = "recv"
                                     /\ ws'[k].pc = "notify"
                                     /\ ws'[k].chat_id = tg.chat_id
        /\ DispatchSucceeds =>
              /\ Len(tg'.frames) = 1
              /\ tg'.frames = tg.payload
              /\ tg'.told = "sent"
              /\ pending_telegram_responses' = pending_telegram_responses
      ]_vars

\* A reply has been dispatched: one envelope handed over, the human told so.
C4_Witness ==
    /\ tg.pc = "idle"
    /\ tg.told = "sent"
    /\ Len(tg.frames) = 1
    /\ tg.frames[1].type = "reply"
    /\ tg.frames[1].taskId \in TaskIds

\* ----------------------------------------------------------------------- C5
\* A step in which the handler of connection k routes a question: it passes
\* from reading frames to the send of the notification.
Routes(k) == ws[k].pc = "recv" /\ ws'[k].pc = "notify"

\* C5: a step that routes a question for task t finds t registered to the
\* chat c it routes to and leaves c with the one entry that references t,
\* whether or not c had an entry before (an earlier entry is overwritten and
\* the overwriting is logged), and touches no other chat's entry; a chat's
\* entry never changes otherwise (it can only go away), so the entry a reply
\* finds is that of the last question routed to the chat; and the envelope
\* of a reply from c carries the task of c's current entry.
C5_RoutedQuestionOverwritesPending ==
    [][ /\ \A k \in Conns :
              Routes(k) =>
                 LET c == ws'[k].chat_id
                     t == ws'[k].task_id
                 IN /\ Lookup(t) = {c}
                    /\ DOMAIN pending_telegram_responses' =
                          DOMAIN pending_telegram_responses \cup {c}
                    /\ pending_telegram_responses'[c] = [taskId |-> t]
                    /\ ws'[k].overwrote = (c \in DOMAIN pending_telegram_responses)
                    /\ \A d \in DOMAIN pending_telegram_responses \ {c} :
                          pending_telegram_responses'[d] =
                             pending_telegram_responses[d]
        /\ \A c \in DOMAIN pending_telegram_responses' :
              (c \in DOMAIN pending_telegram_responses
                  => pending_telegram_responses'[c] # pending_telegram_responses[c])
              => \E k \in Conns : Routes(k) /\ ws'[k].chat_id = c
        /\ \A c \in ChatIds, text \in ReplyTexts :
              (/\ tg.pc = "idle"
               /\ tg'.payload # <<>>
               /\ handle_telegram_message_input(c, text))
              => tg'.payload[1].taskId = pending_telegram_responses[c].taskId
      ]_vars

\* Two tasks are registered to chat 555, a question was already pending for
\* 555 when the question for task0002 was routed and overwrote it, and the
\* reply from 555 that followed is being dispatched: it names task0002.
C5_Witness ==
    /\ Lookup("abc123") = {555}
    /\ Lookup("task0002") = {555}
    /\ \E k \in Conns :
          /\ ws[k].pc = "notify"
          /\ ws[k].task_id = "task0002"
          /\ ws[k].overwrote
    /\ tg.pc = "ws_send"
    /\ tg.payload[1].taskId = "task0002"

\* ----------------------------------------------------------------------- C6
\* C6: a reply from a chat that has no pending entry, whether it comes in as
\* a text message or as a direct call of handle_telegram_response, ends in
\* that step with nothing handed to the socket transport and no send
\* started, and leaves the registration mapping and the pending dict as they
\* were; the direct call returns False.
C6_ReplyWithoutPendingIsIgnored ==
    [][ \A c \in ChatIds \ DOMAIN pending_telegram_responses, text \in ReplyTexts :
           /\ (/\ tg.pc = "idle"
               /\ tg'.call = "handle_telegram_message_input"
               /\ handle_telegram_message_input(c, text))
              => /\ tg'.pc = "idle"
                 /\ tg'.frames = <<>>
                 /\ tg'.payload = <<>>
                 /\ tg'.told = "not waiting"
                 /\ UNCHANGED <<task_to_chat_mapping, pending_telegram_responses>>
           /\ (/\ tg.pc = "idle"
               /\ tg'.call = "handle_telegram_response"
               /\ handle_telegram_response_call(c, text))
              => /\ tg'.pc = "idle"
                 /\ tg'.frames = <<>>
                 /\ tg'.payload = <<>>
                 /\ tg'.ret = "False"
                 /\ UNCHANGED <<task_to_chat_mapping, pending_telegram_responses>>
      ]_vars

\* A text message was answered with "I wasn't waiting for a response" while
\* a task is registered and the other chat has a question pending.
C6_Witness ==
    /\ tg.call = "handle_telegram_message_input"
    /\ tg.told = "not waiting"
    /\ task_to_chat_mapping # <<>>
    /\ DOMAIN pending_telegram_responses # {}

\* ----------------------------------------------------------------------- C7
\* The entries of the registration mapping that bind task_id.
Bindings(m, task_id) == {i \in DOMAIN m : m[i].task_id = task_id}

\* C7: the mapping never holds more than one binding of a task; a
\* /register of task t from chat c leaves lookup(t) = c whatever t was bound
\* to before, and leaves every other task's binding alone; and no other step
\* binds a task or moves it to another chat, so that lookup(t) is the chat of
\* the last /register of t for as long as t is bound.
C7_LastRegistrationWins ==
    [][ /\ \A t \in TaskIds :
              /\ Cardinality(Bindings(task_to_chat_mapping', t)) <= 1
              /\ Cardinality(DictGet(task_to_chat_mapping', t)) <= 1
        /\ tg.pc = "idle" /\ tg'.call = "register_command" /\ tg'.told = "linked" =>
              \A c \in ChatIds, t \in TaskIds :
                 register_command(c, <<t>>) =>
                    /\ DictGet(task_to_chat_mapping', t) = {c}
                    /\ \A u \in TaskIds \ {t} :
                          DictGet(task_to_chat_mapping', u) = Lookup(u)
        /\ \A t \in TaskIds :
              ( /\ DictGet(task_to_chat_mapping', t) # {}
                /\ DictGet(task_to_chat_mapping', t) # Lookup(t) )
              => /\ tg.pc = "idle"
                 /\ \E c \in ChatIds : /\ register_command(c, <<t>>)
                                       /\ DictGet(task_to_chat_mapping', t) = {c}
      ]_vars

\* abc123 was registered from chat 555 (a question for it was routed there
\* and is still pending) and has just been registered again from chat 999:
\* lookup gives 999.
C7_Witness ==
    /\ tg.call = "register_command"
    /\ tg.told = "linked"
    /\ tg.task_id = "abc123"
    /\ tg.chat_id = 999
    /\ Lookup("abc123") = {999}
    /\ 555 \in DOMAIN pending_telegram_responses
    /\ pending_telegram_responses[555].taskId = "abc123"

\* ----------------------------------------------------------------------- C8
\* C8: unregister_task(t) for a task t that is not in the mapping returns
\* False and leaves the mapping, the pending dict and the registrations file
\* as they were.
C8_UnregisterUnknownTaskIsNoOp ==
    [][ tg.pc = "idle" /\ tg'.call = "unregister_task" =>
           \A t \in TaskIds \ DictKeys(task_to_chat_mapping) :
              unregister_task(t) =>
                 /\ tg'.ret = "False"
                 /\ UNCHANGED <<task_to_chat_mapping, pending_telegram_responses,
                                registration_file>>
      ]_vars

\* unregister_task("abc123") has returned False while the other task is
\* registered and its question is pending.
C8_Witness ==
    /\ tg.call = "unregister_task"
    /\ tg.task_id = "abc123"
    /\ tg.ret = "False"
    /\ Lookup("abc123") = {}
    /\ Lookup("task0002") = {555}
    /\ 555 \in DOMAIN pending_telegram_responses

\* ----------------------------------------------------------------------- C9
\* C9: /unregister t from chat c removes the binding of t if t is bound to
\* c; if t is bound to another chat or to none, the human is told that t is
\* not linked to this chat and the mapping, the pending dict and the
\* registrations file are unchanged.
C9_UnregisterOnlyFromBoundChat ==
    [][ tg.pc = "idle" /\ tg'.call = "unregister_command" =>
           \A c \in ChatIds, t \in TaskIds :
              unregister_command(c, <<t>>) =>
                 IF Lookup(t) = {c}
                 THEN /\ DictGet(task_to_chat_mapping', t) = {}
                      /\ tg'.told = "unlinked"
                 ELSE /\ tg'.told = "not linked to this chat"
                      /\ UNCHANGED <<task_to_chat_mapping,
                                     pending_telegram_responses, registration_file>>
      ]_vars

\* /unregister abc123 from chat 999 has been refused: abc123 is bound to
\* chat 555, where its question is pending.
C9_Witness ==
    /\ tg.call = "unregister_command"
    /\ tg.chat_id = 999
    /\ tg.task_id = "abc123"
    /\ tg.told = "not linked to this chat"
    /\ Lookup("abc123") = {555}
    /\ 555 \in DOMAIN pending_telegram_responses
    /\ pending_telegram_responses[555].taskId = "abc123"

\* ---------------------------------------------------------------------- C10
\* The pending dict after the binding of task t to chat c has been removed,
\* as the claim has it: c's entry is gone exactly if it referenced t, every
\* other entry is as it was.
PendingAfterUnbinding(t, c) ==
    /\ \A d \in ChatIds :
          d \in DOMAIN pending_telegram_responses'
          <=> /\ d \in DOMAIN pending_telegram_responses
              /\ ~(d = c /\ pending_telegram_responses[d].taskId = t)
    /\ \A d \in DOMAIN pending_telegram_responses' :
          pending_telegram_responses'[d] = pending_telegram_responses[d]

\* C10: unregister_task(t) for a task t bound to chat c, called directly or
\* by /unregister from c, removes the binding, returns True, deletes c's
\* pending entry exactly if that entry references t and changes no other
\* pending entry; the same holds of the pending dict in every step that
\* removes a binding (the unregistration after a Forbidden send included).
C10_UnregisterClearsOnlyItsOwnPending ==
    [][ \A t \in DictKeys(task_to_chat_mapping), c \in ChatIds :
           Lookup(t) = {c} =>
              /\ ( /\ tg.pc = "idle"
                   /\ tg'.task_id = t
                   /\ unregister_task(t) \/ unregister_command(c, <<t>>) )
                 => /\ DictGet(task_to_chat_mapping', t) = {}
                    /\ tg'.ret = "True"
                    /\ PendingAfterUnbinding(t, c)
              /\ DictGet(task_to_chat_mapping', t) = {} => PendingAfterUnbinding(t, c)
      ]_vars

\* unregister_task("abc123") has removed the binding of abc123 to chat 555
\* and returned True; the pending entry of 555 references the other task and
\* is still there.
C10_Witness ==
    /\ tg.call = "unregister_task"
    /\ tg.task_id = "abc123"
    /\ tg.chat_id = 555
    /\ tg.ret = "True"
    /\ Lookup("abc123") = {}
    /\ Lookup("task0002") = {555}
    /\ DOMAIN pending_telegram_responses = {555}
    /\ pending_telegram_responses[555].taskId = "task0002"

\* ---------------------------------------------------------------------- C11
\* The connections whose handler has accepted them and has not ended.
Accepted == {k \in Conns : ws[k].pc \in {"recv", "notify"}}

\* A step in which connection k arrives.
Arrives(k) == ws[k].pc = "none" /\ ws'[k].pc # "none"

\* C11: active_websocket is one connection or none, and it is the accepted
\* connection; a connection that arrives while another is active goes to
\* the close with the rejection reason and the active connection stays; the
\* end of a rejected handler leaves active_websocket alone; and
\* active_websocket, once set, changes only by being cleared at the end of
\* the active connection's own handler.
C11_SingleActiveConnection ==
    [][ /\ Cardinality(active_websocket') <= 1
        /\ Accepted' = active_websocket'
        /\ \A k \in Conns :
              /\ (Arrives(k) /\ active_websocket # {})
                 => /\ ws'[k].pc = "close"
                    /\ active_websocket' = active_websocket
              /\ (Arrives(k) /\ active_websocket = {})
                 => /\ ws'[k].pc = "recv"
                    /\ active_websocket' = {k}
              /\ (ws[k].pc = "close" /\ ws'[k].pc = "none")
                 => active_websocket' = active_websocket
        /\ (active_websocket # {} /\ active_websocket' # active_websocket)
           => /\ active_websocket' = {}
              /\ \E k \in active_websocket : /\ ws[k].pc = "recv"
                                             /\ ~ws[k].open
                                             /\ ws'[k].pc = "none"
      ]_vars

\* Connection 1 is active and in the middle of a notification while
\* connection 2, which arrived meanwhile, is being closed as rejected.
C11_Witness ==
    /\ active_websocket = {1}
    /\ ws[1].pc = "notify"
    /\ ws[2].pc = "close"

\* ---------------------------------------------------------------------- C12
\* C12: the handler of the active connection k, when it ends (its async-for
\* is over after a close, an error or another exception), clears
\* active_websocket in that step; a connection arriving when
\* active_websocket is clear is accepted as the active one; and, the event
\* loop being fair, an active connection that is closed leads to
\* active_websocket being clear.
C12_EndedConnectionIsCleared ==
    /\ [][ \A k \in Conns :
              /\ (active_websocket = {k} /\ ws[k].pc = "recv" /\ ws'[k].pc = "none")
                 => active_websocket' = {}
              /\ (active_websocket = {} /\ ws[k].pc = "none" /\ ws'[k].pc # "none")
                 => active_websocket' = {k}
         ]_vars
    /\ (active_websocket # {} /\ \A k \in active_websocket : ~ws[k].open)
          ~> (active_websocket = {})

\* Connection 1 was the active one when a reply was sent on it (the send
\* still holds it); it has ended since and was cleared, and connection 2,
\* which arrived later, is the active one.
C12_Witness ==
    /\ tg.pc = "ws_send"
    /\ tg.conn = {1}
    /\ ws[1].pc = "none"
    /\ active_websocket = {2}
    /\ ws[2].pc = "recv"

\* ---------------------------------------------------------------------- C13
\* C13: a followup frame for a task that has no registration, read by the
\* active connection's handler, changes nothing: the mapping, the pending
\* dict and the registrations file are as before, no send to a chat is
\* started (the handler goes on reading), and nothing is handed to the
\* socket; and a handler never starts a send to a chat for a task that is
\* not in the mapping.
C13_UnregisteredQuestionIsDiscarded ==
    [][ \A k \in Conns :
           /\ (ws[k].pc = "recv" /\ ws[k].open) =>
                 \A frame \in InboundFrames :
                    ( /\ IsFollowup(frame)
                      /\ frame.taskId \notin DictKeys(task_to_chat_mapping)
                      /\ websocket_handler_message(k, frame) )
                    => /\ ws'[k].pc = "recv"
                       /\ UNCHANGED <<task_to_chat_mapping,
                                      pending_telegram_responses,
                                      registration_file, active_websocket, tg>>
           /\ Routes(k) => ws'[k].task_id \in DictKeys(task_to_chat_mapping)
      ]_vars

\* The active connection's handler is reading frames; abc123 is not
\* registered, while task0002 is and has its question pending in chat 555:
\* a followup for abc123 read here is one the claim is about.
C13_Witness ==
    /\ active_websocket = {1}
    /\ ws[1].pc = "recv"
    /\ ws[1].open
    /\ "abc123" \notin DictKeys(task_to_chat_mapping)
    /\ Lookup("task0002") = {555}
    /\ 555 \in DOMAIN pending_telegram_responses
    /\ pending_telegram_responses[555].taskId = "task0002"
    /\ ENABLED websocket_handler_message(1, [json |-> TRUE, type |-> "followup",
                                             taskId |-> "abc123",
                                             question |-> "Proceed?"])

Malformed(frame) ==
    \/ ~frame.json
    \/ frame.type # "followup"
    \/ frame.taskId = None
    \/ frame.question = None

\* C15: a malformed frame read by the active connection's handler changes
\* neither the mapping nor the pending dict nor the registrations file,
\* starts no send to a chat (the handler goes on reading, its connection
\* open), hands nothing to the socket, and leaves the connection the active
\* one.
C15_MalformedFrameIsIgnored ==
    [][ \A k \in Conns :
           (ws[k].pc = "recv" /\ ws[k].open) =>
              \A frame \in InboundFrames :
                 (Malformed(frame) /\ websocket_handler_message(k, frame))
                 => /\ ws'[k] = ws[k]
                    /\ active_websocket = {k}
                    /\ UNCHANGED <<task_to_chat_mapping, pending_telegram_responses,
                                   registration_file, active_websocket, tg>>
      ]_vars

\* The active connection's handler is reading frames while abc123 is
\* registered to chat 555 and has no question pending: a followup frame for
\* abc123 without a question, read here, is one the claim is about.
C15_Witness ==
    /\ active_websocket = {1}
    /\ ws[1].pc = "recv"
    /\ ws[1].open
    /\ Lookup("abc123") = {555}
    /\ 555 \notin DOMAIN pending_telegram_responses
    /\ \E frame \in InboundFrames :
          /\ Malformed(frame)
          /\ frame.type = "followup"
          /\ frame.taskId = "abc123"
          /\ ENABLED websocket_handler_message(1, frame)

\* ---------------------------------------------------------------------- C16
\* C16: /register t from chat c binds t to c, leaves the binding of every
\* other task, every pending entry and the connections as they were, and
\* tells the human the task is linked; /register without an argument
\* changes nothing (mapping, pending dict, registrations file, connections)
\* and tells the human the usage.
C16_RegisterChangesOnlyItsBinding ==
    [][ (tg.pc = "idle" /\ tg'.call = "register_command") =>
           \A c \in ChatIds :
              /\ \A t \in TaskIds :
                    register_command(c, <<t>>) =>
                       /\ DictGet(task_to_chat_mapping', t) = {c}
                       /\ DictKeys(task_to_chat_mapping') =
                             DictKeys(task_to_chat_mapping) \cup {t}
                       /\ \A u \in TaskIds \ {t} :
                             DictGet(task_to_chat_mapping', u) = Lookup(u)
                       /\ tg'.told = "linked"
                       /\ UNCHANGED <<pending_telegram_responses, ws,
                                      active_websocket>>
              /\ register_command(c, <<>>) =>
                    /\ tg'.told = "usage"
                    /\ UNCHANGED <<task_to_chat_mapping, pending_telegram_responses,
                                   registration_file, ws, active_websocket>>
      ]_vars

\* /register task0002 from chat 999 has just been handled while abc123 is
\* bound to chat 555 and has its question pending there.
C16_Witness ==
    /\ tg.call = "register_command"
    /\ tg.told = "linked"
    /\ tg.chat_id = 999
    /\ tg.task_id = "task0002"
    /\ Lookup("task0002") = {999}
    /\ Lookup("abc123") = {555}
    /\ DOMAIN pending_telegram_responses = {555}
    /\ pending_telegram_responses[555].taskId = "abc123"

\* ---------------------------------------------------------------------- C17
\* C17: a register_task_for_chat or an unregister_task made while the
\* registrations file cannot be written updates the mapping as it does when
\* the save succeeds (the task is bound to the chat given, or the binding is
\* removed, other tasks' bindings untouched), returns its normal value (None;
\* True for a removal, False for an unknown task) without raising, and
\* leaves the file as it was.
C17_FailedSaveKeepsMemoryUpdate ==
    [][ (tg.pc = "idle" /\ ~disk_writable) =>
           \A t \in TaskIds :
              /\ \A c \in StoreChatIds :
                    register_task_for_chat(t, c) =>
                       /\ DictGet(task_to_chat_mapping', t) = {c}
                       /\ \A u \in TaskIds \ {t} :
                             DictGet(task_to_chat_mapping', u) = Lookup(u)
                       /\ tg'.ret = "None"
                       /\ registration_file' = registration_file
              /\ (tg'.call = "unregister_task" /\ unregister_task(t)) =>
                    /\ DictGet(task_to_chat_mapping', t) = {}
                    /\ \A u \in TaskIds \ {t} :
                          DictGet(task_to_chat_mapping', u) = Lookup(u)
                    /\ tg'.ret = IF Lookup(t) # {} THEN "True" ELSE "False"
                    /\ registration_file' = registration_file
      ]_vars

\* register_task_for_chat("abc123", 555) has returned and abc123 is bound to
\* 555 in memory, though no save has ever succeeded: there is no
\* registrations file and the disk is unwritable.
C17_Witness ==
    /\ tg.call = "register_task_for_chat"
    /\ tg.task_id = "abc123"
    /\ tg.chat_id = 555
    /\ tg.ret = "None"
    /\ Lookup("abc123") = {555}
    /\ ~disk_writable
    /\ ~registration_file.exists

\* ---------------------------------------------------------------------- C18
\* C18 (as claimed): when the registrations file holds the mapping as it was
\* in memory after the last register or unregister (the save succeeded), a
\* restart loads exactly that mapping, whatever integer chat ids it holds.
C18_RestartRestoresRegistrations ==
    [][ ( /\ tg.pc = "idle"
          /\ registration_file.exists
          /\ registration_file.data = task_to_chat_mapping
          /\ Restart )
        => task_to_chat_mapping' = task_to_chat_mapping
      ]_vars

\* ---------------------------------------------------------------------- C19
\* C19: when the send of the question for task t to chat c ends with a
\* failure other than Forbidden, that step changes neither the mapping nor
\* the pending dict nor the registrations file: a pending entry of c that
\* references t is still there and t is still registered as it was; the
\* handler goes on reading frames on the same active connection.
C19_TransientSendFailureKeepsPending ==
    [][ \A k \in Conns :
           (ws[k].pc = "notify" /\ notification_send_done(k, "error"))
           => /\ UNCHANGED <<task_to_chat_mapping, pending_telegram_responses,
                             registration_file, active_websocket, tg>>
              /\ ws'[k].pc = "recv"
              /\ ( /\ ws[k].chat_id \in DOMAIN pending_telegram_responses
                   /\ pending_telegram_responses[ws[k].chat_id].taskId = ws[k].task_id )
                 => /\ ws[k].chat_id \in DOMAIN pending_telegram_responses'
                    /\ pending_telegram_responses'[ws[k].chat_id].taskId = ws[k].task_id
      ]_vars

\* The question for abc123 is on its way to chat 555, its pending entry is
\* set and abc123 is registered to 555: the send can end with an error here.
C19_Witness ==
    /\ \E k \in Conns :
          /\ ws[k].pc = "notify"
          /\ ws[k].task_id = "abc123"
          /\ ws[k].chat_id = 555
          /\ ENABLED notification_send_done(k, "error")
    /\ Lookup("abc123") = {555}
    /\ 555 \in DOMAIN pending_telegram_responses
    /\ pending_telegram_responses[555].taskId = "abc123"

\* ---------------------------------------------------------------------- C20
\* The pending entry of the chat that handler k is sending to references the
\* task of the question being sent.
PendingIsSent(k) ==
    /\ ws[k].chat_id \in DOMAIN pending_telegram_responses
    /\ pending_telegram_responses[ws[k].chat_id].taskId = ws[k].task_id

\* C20: the step that starts the send of the question for t to chat c has
\* written pending[c] = t; while that send is in flight the entry stays,
\* unless a text message from c is taken up as the reply or t is
\* unregistered; and a text message from c handled while the send is in
\* flight and the entry is there is dispatched as the reply for t.
C20_PendingSetBeforeSend ==
    [][ \A k \in Conns :
           /\ Routes(k) =>
                 /\ ws'[k].chat_id \in DOMAIN pending_telegram_responses'
                 /\ pending_telegram_responses'[ws'[k].chat_id].taskId = ws'[k].task_id
           /\ (ws[k].pc = "notify" /\ ws'[k].pc = "notify" /\ PendingIsSent(k)) =>
                 \/ /\ ws[k].chat_id \in DOMAIN pending_telegram_responses'
                    /\ pending_telegram_responses'[ws[k].chat_id].taskId = ws[k].task_id
                 \/ /\ tg.pc = "idle"
                    /\ tg'.call = "handle_telegram_message_input"
                    /\ \E text \in ReplyTexts :
                          handle_telegram_message_input(ws[k].chat_id, text)
                 \/ /\ Lookup(ws[k].task_id) # {}
                    /\ DictGet(task_to_chat_mapping', ws[k].task_id) = {}
           /\ (ws[k].pc = "notify" /\ tg.pc = "idle" /\ PendingIsSent(k)) =>
                 \A text \in ReplyTexts :
                    handle_telegram_message_input(ws[k].chat_id, text) =>
                       /\ tg'.pc = "ws_send"
                       /\ tg'.payload = << ReplyPayload(ws[k].task_id, text) >>
      ]_vars

\* The question for abc123 is still on its way to chat 555 and was the only
\* one pending there; a text message from 555 has been taken up meanwhile
\* (the entry is gone) and is being sent to the editor as the reply for
\* abc123.
C20_Witness ==
    /\ \E k \in Conns :
          /\ ws[k].pc = "notify"
          /\ ws[k].task_id = "abc123"
          /\ ws[k].chat_id = 555
          /\ ~ws[k].overwrote
    /\ Lookup("abc123") = {555}
    /\ 555 \notin DOMAIN pending_telegram_responses
    /\ tg.pc = "ws_send"
    /\ tg.chat_id = 555
    /\ tg.payload[1].taskId = "abc123"

\* ---------------------------------------------------------------------- C21
\* C21: a handler that has accepted its connection leaves its async-for only
\* when it is reading and the connection is closed, never while or because a
\* frame is handled; a frame that is not routed leaves the handler reading;
\* the send of a question, however it ends (sent, Forbidden, any other
\* error), takes the handler back to reading with the connection as it was
\* and still the active one; and a handler that is reading an open
\* connection is the active one and takes every frame.
C21_FrameFailureKeepsReceiveLoop ==
    /\ [][ \A k \in Conns :
              /\ (ws[k].pc \in {"recv", "notify"} /\ ws'[k].pc = "none")
                 => (ws[k].pc = "recv" /\ ~ws[k].open)
              /\ (ws[k].pc = "recv" /\ ws[k].open) =>
                    \A frame \in InboundFrames :
                       ( /\ Malformed(frame)
                            \/ frame.taskId \notin DictKeys(task_to_chat_mapping)
                         /\ websocket_handler_message(k, frame) )
                       => /\ ws'[k] = ws[k]
                          /\ active_websocket' = {k}
              /\ ws[k].pc = "notify" =>
                    \A outcome \in BotSendOutcomes :
                       notification_send_done(k, outcome)
                       => /\ ws'[k].pc = "recv"
                          /\ ws'[k].open = ws[k].open
                          /\ active_websocket = {k}
                          /\ active_websocket' = {k}
         ]_vars
    /\ [](\A k \in Conns :
             (ws[k].pc = "recv" /\ ws[k].open)
             => /\ active_websocket = {k}
                /\ \A frame \in InboundFrames :
                      ENABLED websocket_handler_message(k, frame))

\* abc123 was registered to chat 555 by the last command handled and is not
\* registered any more: the send of its question ended with Forbidden.  A
\* connection is active and its handler is reading frames.
C21_Witness ==
    /\ tg.call = "register_command"
    /\ tg.task_id = "abc123"
    /\ tg.chat_id = 555
    /\ Lookup("abc123") = {}
    /\ active_websocket = {1}
    /\ ws[1].pc = "recv"
    /\ ws[1].open

\* ---------------------------------------------------------------------- C22
\* C22: the chat handler is suspended only inside the send of a reply (or
\* of its error notice), never between the check of the pending dict and the
\* pop: a text message from a chat that has an entry pops that very entry in
\* the step that checked it, so that handle_telegram_response never finds
\* it gone (it never returns False to handle_telegram_message_input in
\* run_bot's wiring); the step that routes a question sets the entry of the
\* chat the mapping gives for the task in that same step; and the pending
\* dict holds at most one entry per chat, each of one task.
C22_ReadModifyWriteIsAtomic ==
    /\ [][ /\ \A c \in ChatIds, text \in ReplyTexts :
                 ( /\ tg.pc = "idle"
                   /\ c \in DOMAIN pending_telegram_responses
                   /\ tg'.call = "handle_telegram_message_input"
                   /\ handle_telegram_message_input(c, text) )
                 => /\ c \notin DOMAIN pending_telegram_responses'
                    /\ tg'.ret # "False"
                    /\ tg'.pc = "ws_send" =>
                          tg'.pending_info = {pending_telegram_responses[c]}
           /\ \A k \in Conns :
                 Routes(k) =>
                    /\ Lookup(ws'[k].task_id) = {ws'[k].chat_id}
                    /\ pending_telegram_responses' =
                          [c \in DOMAIN pending_telegram_responses \cup {ws'[k].chat_id}
                             |-> IF c = ws'[k].chat_id
                                 THEN [taskId |-> ws'[k].task_id]
                                 ELSE pending_telegram_responses[c]]
         ]_vars
    /\ [](/\ tg.pc \in {"idle", "ws_send", "notify_error"}
          /\ tg.call = "handle_telegram_message_input" => tg.ret # "False"
          /\ DOMAIN pending_telegram_responses \subseteq ChatIds
          /\ \A c \in DOMAIN pending_telegram_responses :
                pending_telegram_responses[c].taskId \in TaskIds)

\* The two handlers are both suspended on chat 555: the reply for abc123 is
\* in its socket send and the question for task0002, routed meanwhile, is on
\* its way to the chat, its entry set.
C22_Witness ==
    /\ tg.pc = "ws_send"
    /\ tg.chat_id = 555
    /\ tg.payload[1].taskId = "abc123"
    /\ \E k \in Conns :
          /\ ws[k].pc = "notify"
          /\ ws[k].chat_id = 555
          /\ ws[k].task_id = "task0002"
    /\ 555 \in DOMAIN pending_telegram_responses
    /\ pending_telegram_responses[555].taskId = "task0002"

\* ---------------------------------------------------------------------- C23
\* C23: /unregister t from chat c, when t is not bound to c, has one outcome
\* whatever t is bound to (another chat, or none): the human is told that t
\* is not linked to this chat, what the handler returns with depends on c
\* and t alone, and nothing of the system's state changes; the reply "Could
\* not find", which would tell the two cases apart, is never given.
C23_UnregisterRefusalTellsNothing ==
    /\ [][ (tg.pc = "idle" /\ tg'.call = "unregister_command") =>
              \A c \in ChatIds, t \in TaskIds :
                 (Lookup(t) # {c} /\ unregister_command(c, <<t>>))
                 => /\ tg' = [NoUpdate EXCEPT !.call = "unregister_command",
                                             !.chat_id = c,
                                             !.task_id = t,
                                             !.told = "not linked to this chat"]
                    /\ UNCHANGED <<task_to_chat_mapping, pending_telegram_responses,
                                   registration_file, ws, active_websocket>>
         ]_vars
    /\ [](tg.told # "could not find")

\* /unregister abc123 from chat 999 has been refused while no task has ever
\* been registered (there is no registrations file): the reply is the one
\* given when the task is bound to another chat.
C23_Witness ==
    /\ tg.call = "unregister_command"
    /\ tg.chat_id = 999
    /\ tg.task_id = "abc123"
    /\ tg.told = "not linked to this chat"
    /\ ~registration_file.exists
    /\ task_to_chat_mapping = <<>>

\* ---------------------------------------------------------------------- C24
\* A step of the handling of a reply from chat c: the text message or the
\* direct call that pops the entry, or the end of its send or of its error
\* notice.
ReplyStep(c) ==
    \/ /\ tg.pc = "idle"
       /\ tg'.call \in {"handle_telegram_message_input", "handle_telegram_response"}
       /\ \E text \in ReplyTexts : \/ handle_telegram_message_input(c, text)
                                   \/ handle_telegram_response_call(c, text)
    \/ /\ tg.pc \in {"ws_send", "notify_error"}
       /\ tg.chat_id = c
       /\ tg'.pc # tg.pc

\* A step that unregisters task t.
Unregisters(t) == Lookup(t) # {} /\ DictGet(task_to_chat_mapping', t) = {}

\* A step in which a connection arrives, is closed, or its handler ends.
ConnectionEvent ==
    \E k \in Conns : \/ ws[k].pc = "none" /\ ws'[k].pc # "none"
                     \/ ws[k].pc # "none" /\ ws'[k].pc = "none"
                     \/ ws[k].open /\ ~ws'[k].open

\* C24: the pending entry of a chat c is removed or changed only in a step
\* of the handling of a reply from c, in the step that routes a new
\* question to c, or in a step that unregisters the task it references;
\* connections arriving and ending, frames that are not routed, and
\* commands change no pending entry unless they unregister its task.
C24_PendingEntryNeverExpires ==
    [][ /\ \A c \in DOMAIN pending_telegram_responses :
              ( \/ c \notin DOMAIN pending_telegram_responses'
                \/ pending_telegram_responses'[c] # pending_telegram_responses[c] )
              => \/ ReplyStep(c)
                 \/ \E k \in Conns : Routes(k) /\ ws'[k].chat_id = c
                 \/ Unregisters(pending_telegram_responses[c].taskId)
        /\ ConnectionEvent
           => pending_telegram_responses' = pending_telegram_responses
        /\ ( /\ tg.pc = "idle"
             /\ tg' # tg
             /\ tg'.call \in {"start_command", "register_command"} )
           => pending_telegram_responses' = pending_telegram_responses
      ]_vars

\* The question for abc123 is pending in chat 555 although the connection it
\* came on has ended and none is active, and the last thing handled was a
\* /register of the other task from the other chat.
C24_Witness ==
    /\ 555 \in DOMAIN pending_telegram_responses
    /\ pending_telegram_responses[555].taskId = "abc123"
    /\ active_websocket = {}
    /\ \A k \in Conns : ws[k].pc = "none"
    /\ tg.call = "register_command"
    /\ tg.chat_id = 999
    /\ tg.task_id = "task0002"

\* ---------------------------------------------------------------------
\* C25: when the process has ended after a shutdown signal, the active
\* connection has been closed and the updater of the chat transport has
\* been stopped.
\* main stops nothing: its except KeyboardInterrupt clause closes the active
\* connection only, and when the interrupt reaches main as a cancellation
\* the clause is not entered at all.
C25_ShutdownClosesSocketAndStopsReceiveLoop ==
    main.pc = "exited"
    => /\ \A k \in active_websocket : ~ws[k].open
       /\ ~main.polling

\* ---------------------------------------------------------------------
\* C26: every pending entry (chat c -> task t) refers to a task that is
\* registered to that same chat: lookup(t) = c.
\* register_task_for_chat never touches pending_telegram_responses: once
\* /register binds t to another chat, the entry of the earlier chat still
\* names t, and a text message from the earlier chat is dispatched as the
\* reply for t.
C26_PendingTaskIsBoundToItsChat ==
    \A c \in DOMAIN pending_telegram_responses :
        Lookup(pending_telegram_responses[c].taskId) = {c}

\* ---------------------------------------------------------------------
\* A step in which the handling of a reply from chat c reaches the await of
\* the send function.
ReplyStarts(c) == tg.pc = "idle" /\ tg'.pc = "ws_send" /\ tg'.chat_id = c

\* A step that gives chat c a pending entry or changes the one it has.
PendingWritten(c) ==
    /\ c \in DOMAIN pending_telegram_responses'
    /\ \/ c \notin DOMAIN pending_telegram_responses
       \/ pending_telegram_responses'[c] # pending_telegram_responses[c]

\* C27: a routed question is answered by at most one successfully
\* dispatched envelope.  The handling of a reply from c takes c's entry out
\* of the pending dict before it awaits the send; one reply is in flight at
\* a time; a dispatch that succeeds hands over exactly one envelope, the one
\* for the entry it took, and puts nothing back; no envelope is handed over
\* in any other step; and an entry is written only by the routing of a
\* question to that chat or by the put-back of a dispatch that failed.
C27_AtMostOneReplyPerQuestion ==
    [][ /\ \A c \in ChatIds :
              ReplyStarts(c)
              => /\ c \in DOMAIN pending_telegram_responses
                 /\ tg'.pending_info = {pending_telegram_responses[c]}
                 /\ c \notin DOMAIN pending_telegram_responses'
        /\ tg'.pc = "ws_send" => (tg.pc = "idle" \/ tg' = tg)
        /\ DispatchSucceeds
           => /\ pending_telegram_responses' = pending_telegram_responses
              /\ Len(tg'.frames) = 1
              /\ tg'.frames = tg.payload
              /\ tg'.frames[1].taskId = PoppedTask
        /\ (tg'.frames # <<>> /\ tg' # tg) => DispatchSucceeds
        /\ \A c \in ChatIds :
              PendingWritten(c)
              => \/ \E k \in Conns : Routes(k) /\ ws'[k].chat_id = c
                 \/ /\ DispatchFailsInFlight
                    /\ tg.chat_id = c
                    /\ pending_telegram_responses'[c] \in tg.pending_info
      ]_vars

\* A reply has been dispatched with success under a send function that can
\* fail, and the chat it came from has no pending entry left.
C27_Witness ==
    /\ websocket_send_func = "simulated"
    /\ tg.pc = "idle"
    /\ tg.ret = "True"
    /\ Len(tg.frames) = 1
    /\ tg.frames[1].taskId = "abc123"
    /\ Lookup("abc123") = {555}
    /\ 555 \notin DOMAIN pending_telegram_responses
    /\ 999 \notin DOMAIN pending_telegram_responses

\* ---------------------------------------------------------------------
\* C28: when the dispatch of a reply from chat c fails while c has a pending
\* entry again (a question routed to c during the await of the send), the
\* put-back leaves that newer entry as it is.
\* The except clause assigns pending_telegram_responses[chat_id] =
\* pending_info without looking at the dict: the newer entry is overwritten
\* with the popped one.
C28_RollbackKeepsNewerQuestion ==
    [][ ( /\ DispatchFailsInFlight
          /\ tg.chat_id \in DOMAIN pending_telegram_responses )
        => /\ tg.chat_id \in DOMAIN pending_telegram_responses'
           /\ pending_telegram_responses'[tg.chat_id] =
                 pending_telegram_responses[tg.chat_id]
      ]_vars

====
